---- MODULE Spec2Model ----
(***************************************************************************)
(* gptcli: the REPL controller, the conversation session, the streaming    *)
(* call and the retry loop of src/main.go.                                 *)
(*                                                                         *)
(* Texts (Go strings) are sequences of one-character strings, so that      *)
(* TrimSpace, ToLower, Fields and concatenation are computed.  Error       *)
(* values are the strings "nil", "e1", "e2".                               *)
(***************************************************************************)
EXTENDS Integers, Sequences, FiniteSets, TLC

(* ------------------------------ bounds -------------------------------- *)
\* message lines read by the REPL in one run
MaxLines == 2
\* chunks the remote service delivers in one run, over all streams
MaxChunks == 2
\* largest attempts argument given to withRetries when it is checked alone
MaxAttempts == 7

(* ----------------------------- strings -------------------------------- *)
UpperChars == <<"A","B","C","D","E","F","G","H","I","J","K","L","M",
                "N","O","P","Q","R","S","T","U","V","W","X","Y","Z">>
LowerChars == <<"a","b","c","d","e","f","g","h","i","j","k","l","m",
                "n","o","p","q","r","s","t","u","v","w","x","y","z">>

IsSpace(c) == c \in {" ", "\t", "\n", "\r"}

LowerChar(c) ==
    IF \E k \in 1..Len(UpperChars) : UpperChars[k] = c
    THEN LowerChars[CHOOSE k \in 1..Len(UpperChars) : UpperChars[k] = c]
    ELSE c

\* strings.ToLower
ToLower(s) == [k \in 1..Len(s) |-> LowerChar(s[k])]

RECURSIVE TrimLeft(_)
TrimLeft(s) ==
    IF s # <<>> /\ IsSpace(Head(s)) THEN TrimLeft(Tail(s)) ELSE s

RECURSIVE TrimRight(_)
TrimRight(s) ==
    IF s # <<>> /\ IsSpace(s[Len(s)]) THEN TrimRight(SubSeq(s, 1, Len(s) - 1)) ELSE s

\* strings.TrimSpace
TrimSpace(s) == TrimRight(TrimLeft(s))

\* strings.HasPrefix
HasPrefix(s, p) == Len(s) >= Len(p) /\ SubSeq(s, 1, Len(p)) = p

\* strings.TrimPrefix
TrimPrefix(s, p) == IF HasPrefix(s, p) THEN SubSeq(s, Len(p) + 1, Len(s)) ELSE s

\* strings.Fields: the maximal runs of non-space characters, in order
RECURSIVE FieldsFrom(_, _, _)
FieldsFrom(s, cur, acc) ==
    IF s = <<>>
    THEN IF cur = <<>> THEN acc ELSE Append(acc, cur)
    ELSE IF IsSpace(Head(s))
         THEN FieldsFrom(Tail(s), <<>>, IF cur = <<>> THEN acc ELSE Append(acc, cur))
         ELSE FieldsFrom(Tail(s), Append(cur, Head(s)), acc)

Fields(s) == FieldsFrom(s, <<>>, <<>>)

(* ------------------------- literals of the code ----------------------- *)
Slash      == <<"/">>
CmdHelp    == <<"/", "h", "e", "l", "p">>
CmdExit    == <<"/", "e", "x", "i", "t">>
CmdQuit    == <<"/", "q", "u", "i", "t">>
CmdSys     == <<"/", "s", "y", "s">>
CmdFormat  == <<"/", "f", "o", "r", "m", "a", "t">>
CmdClear   == <<"/", "c", "l", "e", "a", "r">>
CmdSave    == <<"/", "s", "a", "v", "e">>
FmtText     == <<"t", "e", "x", "t">>
FmtMarkdown == <<"m", "a", "r", "k", "d", "o", "w", "n">>
FmtJson     == <<"j", "s", "o", "n">>
\* "Responda SOMENTE um objeto JSON valido, sem texto extra."
JsonInstruction == <<"J", "S", "O", "N", "!">>

(* ------------------------------ inputs -------------------------------- *)
\* raw lines the scanner can return (in.Text())
RawLines == {
    <<>>,
    <<" ", " ">>,
    CmdHelp,
    CmdExit,
    CmdQuit,
    <<"/", "e", "x", "i", "t", "x">>,
    CmdSys,
    <<"/", "s", "y", "s", " ", " ", "b", "e", " ">>,
    CmdFormat,
    <<"/", "f", "o", "r", "m", "a", "t", " ", "J", "S", "O", "N">>,
    <<"/", "f", "o", "r", "m", "a", "t", " ", "T", "e", "x", "t">>,
    <<"/", "f", "o", "r", "m", "a", "t", " ", "m", "a", "r", "k", "d", "o", "w", "n">>,
    <<"/", "f", "o", "r", "m", "a", "t", " ", "x", "m", "l">>,
    CmdClear,
    CmdSave,
    <<" ", "h", "i", " ">> }

\* values of --format and --system the process can be started with
InitFormats == { FmtText, <<"J", "S", "O", "N">> }
InitSystems == { <<>>, <<" ", "b", "e", " ">> }

\* error values an operation given to withRetries can return
ErrKinds == {"e1", "e2"}
\* error values stream.Err() can hold
StreamErrs == {"e1"}

\* one event of the response stream: a chunk without choices, or a chunk
\* whose first choice carries a delta
NoChoices == [choices |-> 0, delta |-> <<>>]
ChunkKinds == { NoChoices,
                [choices |-> 1, delta |-> <<>>],
                [choices |-> 1, delta |-> <<"a">>],
                [choices |-> 1, delta |-> <<"b">>] }

(* ------------------------------ state --------------------------------- *)
VARIABLES
    sess,       \* the Session: System, Turns, Format
    noContext,  \* flags.NoContext
    pc,         \* where the program is: idle, read, invoke, stream, sleep, returned, exited
    eof,        \* the scanner has reported that no line is left
    line,       \* repl: the trimmed line read last
    before,     \* the Session as it was when that line was read
    diag,       \* the notice printed last by the REPL
    out,        \* the terminal lines printed since the last line was read, each
                \* the fragments printed on it
    nlines,     \* message lines read so far
    nchunks,    \* chunks delivered so far
    attempts,   \* withRetries: attempts
    i,          \* withRetries: loop index
    err,        \* withRetries: err
    backoff,    \* withRetries: backoff, in ms
    delay,      \* the duration of the sleep started last by this withRetries, in ms
    ret,        \* the value withRetries returned ("none" while it has not)
    errs,       \* the results of the invocations of fn made by this withRetries
    ctxDone,    \* the context given to withRetries is cancelled
    msgs,       \* streamOnce: params.Messages
    built,      \* streamOnce: built
    chunks,     \* the chunks the stream of this streamOnce has yielded so far
    resp,       \* call: resp
    mpc,        \* main: where it is: norun, start, parsed, keyed, merged, exit2
    argv,       \* the command line: for each flag, whether it is given and its value
    environ,    \* the environment variables read by main
    file,       \* config.yaml: whether it exists and what it sets
    flags,      \* main: flags
    cfg,        \* main: cfg
    apiKey,     \* main: apiKey
    settings    \* main: model, system, temp, baseURL, proxy, format, maxTokens

vars == << sess, noContext, pc, eof, line, before, diag, out, nlines, nchunks,
           attempts, i, err, backoff, delay, ret, errs, ctxDone,
           msgs, built, chunks, resp,
           mpc, argv, environ, file, flags, cfg, apiKey, settings >>

mainVars == << mpc, argv, environ, file, flags, cfg, apiKey, settings >>

replVars  == << eof, line, before, diag, nlines >>
retryVars == << attempts, i, err, backoff, delay, ret, errs >>
streamVars == << msgs, built, chunks, resp, out, nchunks >>


(* --------------------------- program constants ------------------------ *)
\* withRetries: backoff := 500 * time.Millisecond
BaseBackoffMs == 500
\* withRetries: the cap, 8 * time.Second
MaxBackoffMs == 8000
\* randJitter: int(b[0]) % 250
JitterRangeMs == 250
\* repl: withRetries(ctx, 4, call)
ReplAttempts == 4

\* values of the random byte b[0] of randJitter
JitterBytes == {0, 249, 250, 255}
\* the values among them drawn while the REPL runs (withRetries called
\* by repl is told from withRetries on its own by line being set)
ReplJitterBytes == {255}

(* ------------------------------ Session ------------------------------- *)
Turn(role, content) == [Role |-> role, Content |-> content]

addSystem(s, sys) == [s EXCEPT !.System = TrimSpace(sys)]
\* variant: the user turn is appended twice
addUser_Twice(s, u) ==
    [s EXCEPT !.Turns = Append(Append(s.Turns, Turn("user", u)), Turn("user", u))]
addUser(s, u)      == [s EXCEPT !.Turns = Append(s.Turns, Turn("user", u))]
addAssistant(s, a) == [s EXCEPT !.Turns = Append(s.Turns, Turn("assistant", a))]

\* lastSystemContent: << content, ok >>
lastSystemContent(s) == IF s.System # <<>> THEN <<s.System, TRUE>> ELSE << <<>>, FALSE >>

Message(role, content) == [role |-> role, content |-> content]

\* the loop of messagesForAPI over s.Turns: a turn whose role is neither
\* user nor assistant adds no message
RECURSIVE AppendTurns(_, _)
AppendTurns(m, turns) ==
    IF turns = <<>> THEN m
    ELSE LET t == Head(turns)
         IN  AppendTurns(
                 CASE t.Role = "user"      -> Append(m, Message("user", t.Content))
                   [] t.Role = "assistant" -> Append(m, Message("assistant", t.Content))
                   [] OTHER                -> m,
                 Tail(turns))

\* variant: the JSON instruction is put ahead of the system instruction
messagesForAPI_JsonFirst(s, jsonMode) ==
    LET m1 == IF jsonMode THEN << Message("system", JsonInstruction) >> ELSE <<>>
        m2 == IF s.System # <<>> THEN Append(m1, Message("system", s.System)) ELSE m1
    IN  AppendTurns(m2, s.Turns)

messagesForAPI(s, jsonMode) ==
    LET m1 == IF s.System # <<>> THEN << Message("system", s.System) >> ELSE <<>>
        m2 == IF jsonMode THEN Append(m1, Message("system", JsonInstruction)) ELSE m1
    IN  AppendTurns(m2, s.Turns)

\* streamOnce: jsonMode := (strings.ToLower(sess.Format) == "json")
jsonModeOf(s) == ToLower(s.Format) = FmtJson

\* call, no-context branch: drop the last turn if it is an assistant turn,
\* then the last turn if it is a user turn
DropLastIf(turns, role) ==
    IF Len(turns) >= 1 /\ turns[Len(turns)].Role = role
    THEN SubSeq(turns, 1, Len(turns) - 1)
    ELSE turns

\* variant: the last two turns are dropped whatever their roles
rollback_NoRoleCheck(s) ==
    [s EXCEPT !.Turns = SubSeq(s.Turns, 1, IF Len(s.Turns) >= 2 THEN Len(s.Turns) - 2 ELSE 0)]

rollback(s) == [s EXCEPT !.Turns = DropLastIf(DropLastIf(s.Turns, "assistant"), "user")]

\* call, after streamOnce returned resp without error
callSuccess(s, r, nc) == IF ~nc THEN addAssistant(s, r) ELSE rollback(s)

\* variant: a stream that failed after some fragments counts as a reply
callReturn_Partial(s, b, e, nc) ==
    IF e # "nil" /\ b = <<>> THEN s ELSE callSuccess(s, b, nc)

\* call: streamOnce returned (resp, err) with built = b and stream.Err() = e;
\* on an error call returns it and leaves the session alone
callReturn(s, b, e, nc) ==
    IF e # "nil" THEN s ELSE callSuccess(s, b, nc)

\* streamOnce: the text returned, "" with an error
streamResult(b, e) == IF e # "nil" THEN <<>> ELSE b

\* variant: the session is replaced by a fresh one
clearContext_Fresh(s) == [s EXCEPT !.Turns = <<>>, !.System = <<>>]

\* repl, case "/clear"
clearContext(s) ==
    LET sys    == lastSystemContent(s)
        newSys == IF sys[2] THEN sys[1] ELSE <<>>
        s1     == [s EXCEPT !.Turns = <<>>]
    IN  IF newSys # <<>> THEN [s1 EXCEPT !.System = newSys] ELSE s1

\* variant: markdown is left out of the check
formatValid_NoMarkdown(f) == ~(f # FmtText /\ f # FmtJson)

\* repl, case "/format": the check of f
formatValid(f) == ~(f # FmtText /\ f # FmtMarkdown /\ f # FmtJson)

(* ----------------------------- withRetries ---------------------------- *)
randJitter(d, b0) == d + (b0 % JitterRangeMs)

\* variant: off by one
loopCond_OffByOne(k, n) == k <= n

\* for i := 0; i < attempts; i++
loopCond(k, n) == k < n

\* if i < attempts-1 { sleep ... }
sleepsAfter(k, n) == k < n - 1

\* variant: the cap is left out
nextBackoff_NoCap(b) == b * 2

nextBackoff(b) == IF b * 2 > MaxBackoffMs THEN MaxBackoffMs ELSE b * 2

\* withRetries returns r to its caller
withRetriesReturn(r) ==
    /\ ret' = r
    /\ pc' = "returned"

\* entry of withRetries(ctx, n, fn): attempts is raised to 1 at least, so
\* the loop is entered and fn is about to be called
withRetriesEnter(n) ==
    LET a == IF n < 1 THEN 1 ELSE n
    IN  /\ attempts' = a
        /\ i' = 0
        /\ err' = "nil"
        /\ backoff' = BaseBackoffMs
        /\ delay' = 0
        /\ errs' = <<>>
        /\ pc' = "invoke"
        /\ ret' = "none"

\* withRetries from the return of fn with result e to the next call of fn,
\* the next sleep or the return
withRetriesAfter(e) ==
    /\ err' = e
    /\ errs' = Append(errs, e)
    /\ attempts' = attempts
    /\ backoff' = backoff
    /\ IF e = "nil"
       THEN /\ withRetriesReturn("nil")
            /\ i' = i
            /\ delay' = 0
       ELSE IF sleepsAfter(i, attempts)
       THEN /\ \E b0 \in (IF line # <<>> THEN ReplJitterBytes ELSE JitterBytes) :
                  delay' = randJitter(backoff, b0)
            /\ pc' = "sleep"
            /\ i' = i
            /\ ret' = ret
       ELSE /\ i' = i + 1
            /\ delay' = 0
            /\ IF loopCond(i + 1, attempts)
               THEN pc' = "invoke" /\ ret' = ret
               ELSE withRetriesReturn(e)

\* time.Sleep returns; backoff is doubled and capped; i++ and the loop test
SleepDone ==
    /\ UNCHANGED mainVars
    /\ pc = "sleep"
    /\ backoff' = nextBackoff(backoff)
    /\ i' = i + 1
    /\ delay' = delay
    /\ IF loopCond(i + 1, attempts)
       THEN pc' = "invoke" /\ ret' = ret
       ELSE withRetriesReturn(err)
    /\ UNCHANGED << attempts, err, errs >>
    /\ UNCHANGED << sess, noContext, ctxDone >>
    /\ UNCHANGED replVars
    /\ UNCHANGED streamVars


(* ----------------------------- streamOnce ----------------------------- *)
\* fmt.Print(delta): the fragment is printed on the current terminal line
emit(o, delta) == [o EXCEPT ![Len(o)] = Append(o[Len(o)], delta)]

\* fmt.Println(): the current terminal line is ended
newline(o) == Append(o, <<>>)

\* variant: the fragment is put in front
writeString_Prepend(b, delta) == delta \o b

\* built.WriteString(delta)
writeString(b, delta) == b \o delta

\* the test of the loop body: if delta != ""
deltaKept(delta) == delta # <<>>

\* withRetries calls fn, which is call; call enters streamOnce: the
\* parameters are built and the stream is opened
Invoke ==
    /\ UNCHANGED mainVars
    /\ pc = "invoke"
    /\ msgs' = messagesForAPI(sess, jsonModeOf(sess))
    /\ built' = <<>>
    /\ chunks' = <<>>
    /\ resp' = <<>>
    /\ pc' = "stream"
    /\ UNCHANGED << out, nchunks, sess, noContext, ctxDone >>
    /\ UNCHANGED replVars
    /\ UNCHANGED retryVars

\* stream.Next() is true: one pass of the loop body on chunk c
StreamNext(c) ==
    /\ UNCHANGED mainVars
    /\ pc = "stream"
    /\ nchunks < MaxChunks
    /\ nchunks' = nchunks + 1
    /\ chunks' = Append(chunks, c)
    /\ IF c.choices = 0
       THEN UNCHANGED << built, out >>
       ELSE IF deltaKept(c.delta)
            THEN built' = writeString(built, c.delta) /\ out' = emit(out, c.delta)
            ELSE UNCHANGED << built, out >>
    /\ UNCHANGED << msgs, resp, pc, sess, noContext, ctxDone >>
    /\ UNCHANGED replVars
    /\ UNCHANGED retryVars

\* stream.Next() is false and stream.Err() is e: streamOnce returns, call
\* returns, and withRetries goes on to its next suspension point
StreamEnd(e) ==
    /\ UNCHANGED mainVars
    /\ pc = "stream"
    /\ out' = newline(out)
    /\ resp' = streamResult(built, e)
    /\ sess' = callReturn(sess, built, e, noContext)
    /\ withRetriesAfter(e)
    /\ UNCHANGED << msgs, built, chunks, nchunks, noContext, ctxDone >>
    /\ UNCHANGED replVars

(* -------------------------------- repl -------------------------------- *)
\* parts := strings.Fields(line); cmd := parts[0]
cmdOf(l) == Fields(l)[1]

isCommand(l) == l # <<>> /\ HasPrefix(l, Slash)
isMessage(l) == l # <<>> /\ ~HasPrefix(l, Slash)

\* in.Scan() is true and in.Text() is raw: the locals of the previous
\* iteration are gone
Scanned(raw) ==
    /\ UNCHANGED mainVars
    /\ pc = "read"
    /\ line' = TrimSpace(raw)
    /\ before' = sess
    /\ eof' = FALSE
    /\ attempts' = 0 /\ i' = 0 /\ err' = "nil" /\ backoff' = 0 /\ delay' = 0
    /\ ret' = "none" /\ errs' = <<>>
    /\ msgs' = <<>> /\ built' = <<>> /\ chunks' = <<>> /\ resp' = <<>>
    /\ out' = << <<>> >>
    /\ UNCHANGED << nchunks, noContext, ctxDone >>

\* in.Scan() is false: the loop is left, no line was read
ScanEnd ==
    /\ UNCHANGED mainVars
    /\ pc = "read"
    /\ eof' = TRUE
    /\ pc' = "exited"
    /\ line' = <<>>
    /\ before' = sess
    /\ diag' = "none"
    /\ attempts' = 0 /\ i' = 0 /\ err' = "nil" /\ backoff' = 0 /\ delay' = 0
    /\ ret' = "none" /\ errs' = <<>>
    /\ msgs' = <<>> /\ built' = <<>> /\ chunks' = <<>> /\ resp' = <<>>
    /\ out' = << <<>> >>
    /\ UNCHANGED << sess, noContext, nlines, nchunks, ctxDone >>

BlankLine(raw) ==
    /\ Scanned(raw)
    /\ line' = <<>>
    /\ diag' = "none"
    /\ pc' = "read"
    /\ UNCHANGED << sess, nlines >>

HelpCmd(raw) ==
    /\ Scanned(raw)
    /\ isCommand(line') /\ cmdOf(line') = CmdHelp
    /\ diag' = "help"
    /\ pc' = "read"
    /\ UNCHANGED << sess, nlines >>

ExitCmd(raw) ==
    /\ Scanned(raw)
    /\ isCommand(line') /\ cmdOf(line') \in {CmdExit, CmdQuit}
    /\ diag' = "none"
    /\ pc' = "exited"
    /\ UNCHANGED << sess, nlines >>

SysCmd(raw) ==
    /\ Scanned(raw)
    /\ isCommand(line') /\ cmdOf(line') = CmdSys
    /\ LET text == TrimSpace(TrimPrefix(line', CmdSys))
       IN  IF text = <<>>
           THEN diag' = "uso: /sys <texto>" /\ sess' = sess
           ELSE diag' = "(system atualizado)" /\ sess' = addSystem(sess, text)
    /\ pc' = "read"
    /\ UNCHANGED nlines

FormatCmd(raw) ==
    /\ Scanned(raw)
    /\ isCommand(line') /\ cmdOf(line') = CmdFormat
    /\ LET parts == Fields(line')
       IN  IF Len(parts) < 2
           THEN diag' = "uso: /format text|markdown|json" /\ sess' = sess
           ELSE LET f == ToLower(parts[2])
                IN  IF ~formatValid(f)
                    THEN diag' = "formato invalido" /\ sess' = sess
                    ELSE diag' = "(formato)" /\ sess' = [sess EXCEPT !.Format = f]
    /\ pc' = "read"
    /\ UNCHANGED nlines

ClearCmd(raw) ==
    /\ Scanned(raw)
    /\ isCommand(line') /\ cmdOf(line') = CmdClear
    /\ sess' = clearContext(sess)
    /\ diag' = "(contexto limpo)"
    /\ pc' = "read"
    /\ UNCHANGED nlines

\* saveTranscript writes a file and fails or not; the session is only read
SaveCmd(raw) ==
    /\ Scanned(raw)
    /\ isCommand(line') /\ cmdOf(line') = CmdSave
    /\ diag' \in {"erro", "(transcript salvo)"}
    /\ pc' = "read"
    /\ UNCHANGED << sess, nlines >>

UnknownCmd(raw) ==
    /\ Scanned(raw)
    /\ isCommand(line')
    /\ cmdOf(line') \notin {CmdHelp, CmdExit, CmdQuit, CmdSys, CmdFormat, CmdClear, CmdSave}
    /\ diag' = "comando desconhecido"
    /\ pc' = "read"
    /\ UNCHANGED << sess, nlines >>

\* a user message: sess.addUser(line), then withRetries(ctx, 4, call) starts
UserMessage(raw) ==
    /\ UNCHANGED mainVars
    /\ nlines < MaxLines
    /\ pc = "read"
    /\ line' = TrimSpace(raw)
    /\ isMessage(line')
    /\ before' = sess
    /\ eof' = FALSE
    /\ diag' = "none"
    /\ nlines' = nlines + 1
    /\ sess' = addUser(sess, line')
    /\ withRetriesEnter(ReplAttempts)
    /\ msgs' = <<>> /\ built' = <<>> /\ chunks' = <<>> /\ resp' = <<>>
    /\ out' = << <<>> >>
    /\ UNCHANGED << nchunks, noContext, ctxDone >>

\* variant: the error ends the process, as must() does in one-shot mode
afterRetries_Must(r) == IF r # "nil" THEN "exited" ELSE "read"

\* where repl goes on after withRetries returned r: the error is only
\* printed
afterRetries(r) == IF r # "nil" THEN "read" ELSE "read"

\* withRetries has returned to repl: the error, if any, is printed and the
\* iteration ends; its locals are gone
ReplAfterRetries ==
    /\ UNCHANGED mainVars
    /\ pc = "returned"
    /\ line # <<>>
    /\ diag' = IF ret # "nil" THEN "error" ELSE diag
    /\ pc' = afterRetries(ret)
    /\ line' = <<>>
    /\ before' = sess
    /\ attempts' = 0 /\ i' = 0 /\ err' = "nil" /\ backoff' = 0 /\ delay' = 0
    /\ ret' = "none" /\ errs' = <<>>
    /\ msgs' = <<>> /\ built' = <<>> /\ chunks' = <<>> /\ resp' = <<>>
    /\ out' = << <<>> >>
    /\ UNCHANGED << sess, noContext, eof, nlines, nchunks, ctxDone >>

(* ------------------------- the program: main, repl -------------------- *)
\* main up to the call of repl: the session is built from the merged
\* settings
Init ==
    /\ \E f \in InitFormats, sy \in InitSystems :
          sess = addSystem([System |-> <<>>, Turns |-> <<>>, Format |-> ToLower(f)], sy)
    /\ noContext \in BOOLEAN
    /\ pc = "read"
    /\ eof = FALSE
    /\ line = <<>>
    /\ before = sess
    /\ diag = "none"
    /\ out = << <<>> >>
    /\ nlines = 0
    /\ nchunks = 0
    /\ attempts = 0 /\ i = 0 /\ err = "nil" /\ backoff = 0 /\ delay = 0
    /\ ret = "none" /\ errs = <<>>
    /\ ctxDone = FALSE
    /\ msgs = <<>> /\ built = <<>> /\ chunks = <<>> /\ resp = <<>>
    /\ mpc = "norun" /\ argv = <<>> /\ environ = <<>> /\ file = <<>>
    /\ flags = <<>> /\ cfg = <<>> /\ apiKey = <<>> /\ settings = <<>>

Next ==
    \/ ScanEnd
    \/ \E raw \in RawLines : BlankLine(raw)
    \/ \E raw \in RawLines : HelpCmd(raw)
    \/ \E raw \in RawLines : ExitCmd(raw)
    \/ \E raw \in RawLines : SysCmd(raw)
    \/ \E raw \in RawLines : FormatCmd(raw)
    \/ \E raw \in RawLines : ClearCmd(raw)
    \/ \E raw \in RawLines : SaveCmd(raw)
    \/ \E raw \in RawLines : UnknownCmd(raw)
    \/ \E raw \in RawLines : UserMessage(raw)
    \/ Invoke
    \/ \E c \in ChunkKinds : StreamNext(c)
    \/ \E e \in StreamErrs \cup {"nil"} : StreamEnd(e)
    \/ SleepDone
    \/ ReplAfterRetries

Spec == Init /\ [][Next]_vars

(* -------------------- withRetries on its own -------------------------- *)
\* the attempts arguments withRetries is called with
AttemptInputs == (0 - 1) .. MaxAttempts

InitRetry ==
    /\ sess = [System |-> <<>>, Turns |-> <<>>, Format |-> FmtText]
    /\ noContext = FALSE
    /\ pc = "idle"
    /\ eof = FALSE
    /\ line = <<>>
    /\ before = sess
    /\ diag = "none"
    /\ out = << <<>> >>
    /\ nlines = 0
    /\ nchunks = 0
    /\ attempts = 0 /\ i = 0 /\ err = "nil" /\ backoff = 0 /\ delay = 0
    /\ ret = "none" /\ errs = <<>>
    /\ ctxDone = FALSE
    /\ msgs = <<>> /\ built = <<>> /\ chunks = <<>> /\ resp = <<>>
    /\ mpc = "norun" /\ argv = <<>> /\ environ = <<>> /\ file = <<>>
    /\ flags = <<>> /\ cfg = <<>> /\ apiKey = <<>> /\ settings = <<>>

\* withRetries(ctx, n, fn) is called
RetryEnter(n) ==
    /\ UNCHANGED mainVars
    /\ pc = "idle"
    /\ withRetriesEnter(n)
    /\ UNCHANGED << sess, noContext, ctxDone >>
    /\ UNCHANGED replVars
    /\ UNCHANGED streamVars

\* fn is called and returns e
FnReturns(e) ==
    /\ UNCHANGED mainVars
    /\ pc = "invoke"
    /\ withRetriesAfter(e)
    /\ UNCHANGED << sess, noContext, ctxDone >>
    /\ UNCHANGED replVars
    /\ UNCHANGED streamVars

\* the owner of ctx cancels it while withRetries runs
CtxCancel ==
    /\ UNCHANGED mainVars
    /\ pc \in {"invoke", "sleep"}
    /\ ~ctxDone
    /\ ctxDone' = TRUE
    /\ UNCHANGED << sess, noContext, pc >>
    /\ UNCHANGED replVars
    /\ UNCHANGED retryVars
    /\ UNCHANGED streamVars

NextRetry ==
    \/ \E n \in AttemptInputs : RetryEnter(n)
    \/ \E e \in ErrKinds \cup {"nil"} : FnReturns(e)
    \/ SleepDone
    \/ CtxCancel

SpecRetry == InitRetry /\ [][NextRetry]_vars


(* -------------------------------- main -------------------------------- *)
\* defaults of parseFlags and of the merge
DefaultModel == <<"g", "p", "t", "-", "5", "-", "m", "i", "n", "i">>
DefaultTemp == -1
DefaultMaxTokens == 0

\* a flag on the command line: absent, or given with value v
NotGiven(zero) == [given |-> FALSE, val |-> zero]
Given(v) == [given |-> TRUE, val |-> v]
\* a key of config.yaml: unset, or set to v
Unset(zero) == [set |-> FALSE, val |-> zero]
SetTo(v) == [set |-> TRUE, val |-> v]

\* the command lines main is started with
ArgvInputs ==
    [ api_key    : {NotGiven(<<>>), Given(<<"K">>)},
      model      : {NotGiven(<<>>), Given(<<"F">>)},
      system     : {NotGiven(<<>>), Given(<<"F">>)},
      temp       : {NotGiven(0), Given(2)},
      base_url   : {NotGiven(<<>>), Given(<<"F">>)},
      proxy      : {NotGiven(<<>>), Given(<<"F">>)},
      format     : {NotGiven(<<>>), Given(FmtMarkdown)},
      max_tokens : {NotGiven(0), Given(64)},
      profile    : {NotGiven(<<>>), Given(<<"w">>), Given(<<"x">>)},
      json       : BOOLEAN ]

\* the environments main is started in
EnvironInputs ==
    [ OPENAI_API_KEY        : {<<>>, <<"E">>},
      OPENAI_OPENAI_API_KEY : {<<>>, <<"T">>} ]

\* profiles of config.yaml: d sets every key (to the values of the README's
\* dev profile), w sets model, system, temp and format only
ProfileD ==
    [ model |-> SetTo(DefaultModel), system |-> SetTo(<<"P">>), temp |-> SetTo(0),
      base_url |-> SetTo(<<>>), proxy |-> SetTo(<<>>), format |-> SetTo(FmtText),
      max_tokens |-> SetTo(0) ]
ProfileW ==
    [ model |-> SetTo(<<"P">>), system |-> SetTo(<<"P">>), temp |-> SetTo(1),
      base_url |-> Unset(<<>>), proxy |-> Unset(<<>>), format |-> SetTo(FmtJson),
      max_tokens |-> Unset(0) ]

\* the config.yaml files main can find: none, or one of two
FileInputs ==
    { [exists |-> FALSE, api_key |-> <<>>, default |-> <<>>, profiles |-> <<>>],
      [exists |-> TRUE, api_key |-> <<"C">>, default |-> <<"d">>,
       profiles |-> << [name |-> <<"d">>, keys |-> ProfileD],
                       [name |-> <<"w">>, keys |-> ProfileW] >>],
      [exists |-> TRUE, api_key |-> <<>>, default |-> <<>>,
       profiles |-> << [name |-> <<"w">>, keys |-> ProfileW] >>] }

\* parseFlags: every flag has its default unless it is given; --json sets
\* Format to json
parseFlags(a) ==
    LET v(f, dflt) == IF f.given THEN f.val ELSE dflt
    IN  [ APIKey    |-> v(a.api_key, <<>>),
          Model     |-> v(a.model, DefaultModel),
          System    |-> v(a.system, <<>>),
          Temp      |-> v(a.temp, DefaultTemp),
          BaseURL   |-> v(a.base_url, <<>>),
          Proxy     |-> v(a.proxy, <<>>),
          Format    |-> IF a.json THEN FmtJson ELSE v(a.format, FmtText),
          Profile   |-> v(a.profile, <<>>),
          JSON      |-> a.json,
          MaxTokens |-> v(a.max_tokens, DefaultMaxTokens) ]

\* the Profile struct yaml.Unmarshal fills: a key that is not set keeps the
\* zero value of its field
profileStruct(k) ==
    [ Model     |-> IF k.model.set THEN k.model.val ELSE <<>>,
      System    |-> IF k.system.set THEN k.system.val ELSE <<>>,
      Temp      |-> IF k.temp.set THEN k.temp.val ELSE 0,
      BaseURL   |-> IF k.base_url.set THEN k.base_url.val ELSE <<>>,
      Proxy     |-> IF k.proxy.set THEN k.proxy.val ELSE <<>>,
      Format    |-> IF k.format.set THEN k.format.val ELSE <<>>,
      MaxTokens |-> IF k.max_tokens.set THEN k.max_tokens.val ELSE 0 ]

\* Profile{}
emptyProfile ==
    [ Model |-> <<>>, System |-> <<>>, Temp |-> 0, BaseURL |-> <<>>, Proxy |-> <<>>,
      Format |-> <<>>, MaxTokens |-> 0 ]

\* loadConfig: without a file, a Config with no profile
loadConfig(f) ==
    IF ~f.exists
    THEN [APIKey |-> <<>>, Default |-> <<>>, Profiles |-> <<>>]
    ELSE [APIKey |-> f.api_key, Default |-> f.default,
          Profiles |-> [k \in 1..Len(f.profiles) |->
                           [name |-> f.profiles[k].name,
                            prof |-> profileStruct(f.profiles[k].keys)]]]

\* main: the API key, and "" when none is found
resolveKey(fl, env, c) ==
    LET k1 == TrimSpace(fl.APIKey)
        k2 == IF k1 = <<>> THEN TrimSpace(env.OPENAI_OPENAI_API_KEY) ELSE k1
        k3 == IF k2 = <<>> THEN TrimSpace(c.APIKey) ELSE k2
        k4 == IF k3 = <<>> THEN TrimSpace(env.OPENAI_API_KEY) ELSE k3
    IN  k4

\* main: the profile named by --profile, else by cfg.Default; Profile{} when
\* there is no name or no profile of that name
selectProfile(fl, c) ==
    LET name == IF fl.Profile = <<>> THEN c.Default ELSE fl.Profile
        hits == {k \in 1..Len(c.Profiles) : c.Profiles[k].name = name}
    IN  IF name # <<>> /\ hits # {}
        THEN c.Profiles[CHOOSE k \in hits : TRUE].prof
        ELSE emptyProfile

\* chooseNonEmpty: the first value that is not blank, else ""
RECURSIVE chooseNonEmpty(_)
chooseNonEmpty(vals) ==
    IF vals = <<>> THEN <<>>
    ELSE IF TrimSpace(Head(vals)) # <<>> THEN Head(vals)
    ELSE chooseNonEmpty(Tail(vals))

chooseTemp(flagVal, profVal, fallback) ==
    IF flagVal >= 0 THEN flagVal
    ELSE IF profVal >= 0 THEN profVal
    ELSE fallback

\* chooseInt64: the first value that is not 0, else 0
RECURSIVE chooseInt64(_)
chooseInt64(vals) ==
    IF vals = <<>> THEN 0
    ELSE IF Head(vals) # 0 THEN Head(vals)
    ELSE chooseInt64(Tail(vals))

\* main: "Merge: flags sobrescrevem profile"
mergeSettings(fl, prof) ==
    [ model     |-> chooseNonEmpty(<<fl.Model, prof.Model, DefaultModel>>),
      system    |-> chooseNonEmpty(<<fl.System, prof.System, <<>> >>),
      temp      |-> chooseTemp(fl.Temp, prof.Temp, DefaultTemp),
      baseURL   |-> chooseNonEmpty(<<fl.BaseURL, prof.BaseURL, <<>> >>),
      proxy     |-> chooseNonEmpty(<<fl.Proxy, prof.Proxy, <<>> >>),
      format    |-> chooseNonEmpty(<<fl.Format, prof.Format, FmtText>>),
      maxTokens |-> chooseInt64(<<fl.MaxTokens, prof.MaxTokens, DefaultMaxTokens>>) ]

InitMain ==
    /\ argv \in ArgvInputs
    /\ environ \in EnvironInputs
    /\ file \in FileInputs
    /\ mpc = "start"
    /\ flags = <<>> /\ cfg = <<>> /\ apiKey = <<>> /\ settings = <<>>
    /\ sess = [System |-> <<>>, Turns |-> <<>>, Format |-> FmtText]
    /\ noContext = FALSE
    /\ pc = "idle"
    /\ eof = FALSE
    /\ line = <<>>
    /\ before = sess
    /\ diag = "none"
    /\ out = << <<>> >>
    /\ nlines = 0
    /\ nchunks = 0
    /\ attempts = 0 /\ i = 0 /\ err = "nil" /\ backoff = 0 /\ delay = 0
    /\ ret = "none" /\ errs = <<>>
    /\ ctxDone = FALSE
    /\ msgs = <<>> /\ built = <<>> /\ chunks = <<>> /\ resp = <<>>

otherVars == << sess, noContext, pc, eof, line, before, diag, out, nlines, nchunks,
                attempts, i, err, backoff, delay, ret, errs, ctxDone,
                msgs, built, chunks, resp >>

\* flags := parseFlags(); cfg, _ := loadConfig()
MainParse ==
    /\ mpc = "start"
    /\ flags' = parseFlags(argv)
    /\ cfg' = loadConfig(file)
    /\ mpc' = "parsed"
    /\ UNCHANGED << argv, environ, file, apiKey, settings >>
    /\ UNCHANGED otherVars

\* the API key is resolved; without one the process exits with status 2
MainKey ==
    /\ mpc = "parsed"
    /\ apiKey' = resolveKey(flags, environ, cfg)
    /\ mpc' = IF apiKey' = <<>> THEN "exit2" ELSE "keyed"
    /\ UNCHANGED << argv, environ, file, flags, cfg, settings >>
    /\ UNCHANGED otherVars

\* the profile is selected and the settings are merged
MainMerge ==
    /\ mpc = "keyed"
    /\ settings' = mergeSettings(flags, selectProfile(flags, cfg))
    /\ mpc' = "merged"
    /\ UNCHANGED << argv, environ, file, flags, cfg, apiKey >>
    /\ UNCHANGED otherVars

NextMain ==
    \/ MainParse
    \/ MainKey
    \/ MainMerge

SpecMain == InitMain /\ [][NextMain]_vars

(* ============================== claims ================================ *)
\* the non-empty fragments of a chunk sequence, in order
RECURSIVE keptDeltas(_)
keptDeltas(cs) ==
    IF cs = <<>> THEN <<>>
    ELSE IF Head(cs).choices > 0 /\ Head(cs).delta # <<>>
         THEN << Head(cs).delta >> \o keptDeltas(Tail(cs))
         ELSE keptDeltas(Tail(cs))

\* the concatenation of a sequence of texts
RECURSIVE Flatten(_)
Flatten(ts) == IF ts = <<>> THEN <<>> ELSE Head(ts) \o Flatten(Tail(ts))

IsPrefix(a, b) == Len(a) <= Len(b) /\ SubSeq(b, 1, Len(a)) = a

\* withRetries has returned to repl: the handling of the line is complete
LineDone == pc = "returned" /\ line # <<>>

\* C1: in no-context mode, once the handling of a message line is complete
\* (success, or every attempt failed), the session holds no more turns than
\* before the line was read.
C1_NoContextNetZero ==
    (noContext /\ LineDone) => Len(sess.Turns) <= Len(before.Turns)

\* C2: withRetries(attempts, fn), attempts >= 1: fn is never invoked after
\* its first success; k failures followed by a success (k < attempts) make
\* k+1 invocations and the result nil; with failures only fn is invoked
\* exactly attempts times and the error returned is that of the last
\* invocation.
C2_RetryCounts ==
    LET n == Len(errs)
        k == Cardinality({j \in 1..n : errs[j] # "nil"})
    IN  /\ \A j \in 1..(n - 1) : errs[j] # "nil"
        /\ pc \in {"invoke", "sleep", "returned"} => n <= attempts
        /\ pc = "returned" =>
              /\ n >= 1
              /\ ret = errs[n]
              /\ ret = "nil" => (n = k + 1 /\ k < attempts)
              /\ ret # "nil" => (n = attempts /\ k = attempts)

C2_Witness ==
    /\ pc = "returned" /\ line = <<>>
    /\ attempts = 4
    /\ errs = <<"e1", "e2", "nil">>
    /\ ret = "nil"

\* C3: once the context given to withRetries is cancelled while the loop
\* sleeps or is between two attempts, fn is not invoked again and
\* withRetries returns the cancellation, not the error of fn.
C3_CancelAborts ==
    [][ (ctxDone /\ (pc = "sleep" \/ (pc = "invoke" /\ i > 0)))
            => /\ errs' = errs
               /\ pc' = "returned" => ret' = "canceled" ]_vars

\* C4: the messages sent by a chat call are, in this order: the system
\* instruction if it is not empty, the strict-JSON instruction if and only
\* if the format is json, then one message per turn, in history order, with
\* the role and the content of the turn.
C4_MessagesOrder ==
    pc = "stream" =>
        LET nsys  == IF sess.System # <<>> THEN 1 ELSE 0
            njson == IF sess.Format = FmtJson THEN 1 ELSE 0
            nt    == Len(sess.Turns)
        IN  /\ Len(msgs) = nsys + njson + nt
            /\ nsys = 1 => msgs[1] = [role |-> "system", content |-> sess.System]
            /\ njson = 1 => msgs[nsys + 1] = [role |-> "system", content |-> JsonInstruction]
            /\ \A k \in 1..nt :
                  msgs[nsys + njson + k] =
                      [role |-> sess.Turns[k].Role, content |-> sess.Turns[k].Content]

C4_Witness ==
    /\ pc = "stream"
    /\ sess.System # <<>>
    /\ sess.Format = FmtJson
    /\ Len(sess.Turns) >= 3
    /\ Len(msgs) = Len(sess.Turns) + 2

\* C5: in no-context mode, after a message line whose call succeeds, the
\* turns are exactly those held before the line was read and the system
\* instruction is unchanged; the assistant turn the rollback looks for is
\* absent and nothing else is removed in its place.
C5_RollbackRestores ==
    (noContext /\ LineDone /\ ret = "nil") =>
        /\ sess.Turns = before.Turns
        /\ sess.System = before.System
        /\ sess.Format = before.Format

C5_Witness ==
    /\ noContext /\ LineDone /\ ret = "nil"
    /\ before.Turns # <<>>
    /\ Len(errs) >= 2

\* C6: for a stream that ends without error, streamOnce returns the
\* concatenation, in arrival order, of the non-empty fragments, and the
\* fragments printed are those same fragments, each once, as they arrive;
\* empty fragments and chunks without choices add nothing.
C6_StreamConcat ==
    /\ pc = "stream" =>
          /\ built = Flatten(keptDeltas(chunks))
          /\ out[Len(out)] = keptDeltas(chunks)
    /\ (LineDone /\ ret = "nil") =>
          /\ resp = Flatten(keptDeltas(chunks))
          /\ out[Len(out) - 1] = keptDeltas(chunks)

C6_Witness ==
    /\ LineDone /\ ret = "nil"
    /\ resp = <<"a", "b">>
    /\ Len(chunks) = 2

\* the session while a line is handled and no attempt has succeeded: the
\* turns held before, then the user turn of the line
OnlyUserAdded == sess.Turns = Append(before.Turns, Turn("user", line))

\* C7: a stream that ends with an error after zero or more fragments gives
\* an error and no text: no assistant turn is appended for that attempt; the
\* assistant turn appended by a later successful attempt holds the fragments
\* of that attempt only; what the failed attempts printed stays printed.
C7_FailedStream ==
    [][ /\ (line' # <<>> /\ errs' # <<>> /\ errs'[Len(errs')] # "nil") =>
              /\ resp' = <<>>
              /\ OnlyUserAdded'
        /\ (LineDone' /\ ret' = "nil" /\ ~noContext') =>
              sess'.Turns = before'.Turns \o
                  << Turn("user", line'), Turn("assistant", Flatten(keptDeltas(chunks'))) >>
        /\ (pc \in {"invoke", "stream", "sleep"} /\ line # <<>>) =>
              /\ Len(out') >= Len(out)
              /\ \A k \in 1..Len(out) : IsPrefix(out[k], out'[k]) ]_vars

C7_Witness ==
    /\ LineDone /\ ret = "nil" /\ ~noContext
    /\ Len(errs) = 2
    /\ out[1] = << <<"a">> >>
    /\ sess.Turns[Len(sess.Turns)] = Turn("assistant", <<"b">>)

isExitLine(l) == isCommand(l) /\ cmdOf(l) \in {CmdExit, CmdQuit}

\* C8: the REPL leaves ReadingCommand for Exited only on end of input or on
\* /exit or /quit; a blank line, an unknown command, a rejected argument and
\* a round trip whose every attempt failed leave it in ReadingCommand.
C8_ExitOnly ==
    [][ /\ (pc' = "exited" /\ pc # "exited") =>
              (pc = "read" /\ (eof' \/ isExitLine(line')))
        /\ (pc = "read" /\ ~eof' /\ ~isExitLine(line')) =>
              (pc' = IF isMessage(line') THEN "invoke" ELSE "read")
        /\ (pc = "read" /\ diag' \in {"comando desconhecido", "uso: /sys <texto>",
                                      "uso: /format text|markdown|json",
                                      "formato invalido"}) => pc' = "read"
        /\ (LineDone /\ ret # "nil") => (pc' = "read" /\ diag' = "error") ]_vars

C8_Witness ==
    /\ pc = "read"
    /\ diag = "error"
    /\ nlines >= 1

\* C9: /format accepts exactly text, markdown and json, in any letter case,
\* and stores the value; with any other value, or none, an error is
\* reported and the session is unchanged.
C9_SetFormat ==
    (pc = "read" /\ isCommand(line) /\ cmdOf(line) = CmdFormat) =>
        LET parts == Fields(line)
        IN  IF Len(parts) >= 2 /\ ToLower(parts[2]) \in {FmtText, FmtMarkdown, FmtJson}
            THEN /\ sess = [before EXCEPT !.Format = ToLower(parts[2])]
                 /\ diag = "(formato)"
            ELSE /\ sess = before
                 /\ diag \in {"uso: /format text|markdown|json", "formato invalido"}

C9_Witness ==
    /\ pc = "read" /\ isCommand(line) /\ cmdOf(line) = CmdFormat
    /\ diag = "formato invalido"
    /\ before.Turns # <<>>
    /\ sess = before

\* C10: /clear leaves no turn and leaves the system instruction and the
\* format as they were.
C10_ClearKeepsSystem ==
    (pc = "read" /\ isCommand(line) /\ cmdOf(line) = CmdClear) =>
        /\ sess.Turns = <<>>
        /\ sess.System = before.System
        /\ sess.Format = before.Format

C10_Witness ==
    /\ pc = "read" /\ isCommand(line) /\ cmdOf(line) = CmdClear
    /\ Len(before.Turns) >= 2
    /\ before.System # <<>>
    /\ sess.Turns = <<>>


\* min(500ms * 2^k, 8s), in ms
UnjitteredDelay(k) ==
    IF BaseBackoffMs * (2 ^ k) < MaxBackoffMs THEN BaseBackoffMs * (2 ^ k) ELSE MaxBackoffMs

\* C11: the delay slept after the failed attempt of index i is
\* min(500ms * 2^i, 8s) plus a jitter in [0, 250ms): it is never negative,
\* never above 8s + 250ms, not smaller than the delay before it as long as
\* that one's un-jittered part is below 8s; a sleep starts only after a
\* failed attempt that is not the last one, never after a success.
C11_BackoffDelay ==
    [][ /\ (pc # "sleep" /\ pc' = "sleep") =>
              /\ \E j \in 0..(JitterRangeMs - 1) : delay' = UnjitteredDelay(i') + j
              /\ delay' >= 0
              /\ delay' <= MaxBackoffMs + JitterRangeMs
              /\ (i' >= 1 /\ UnjitteredDelay(i' - 1) < MaxBackoffMs) => delay' >= delay
              /\ pc = "invoke"
              /\ errs'[Len(errs')] # "nil"
              /\ Len(errs') < attempts'
        /\ (pc = "invoke" /\ errs' # errs
                /\ (errs'[Len(errs')] = "nil" \/ Len(errs') = attempts')) =>
              pc' = "returned"
        /\ (pc = "sleep" /\ pc' # "sleep") => pc' = "invoke" ]_vars

C11_Witness ==
    /\ pc = "sleep" /\ line = <<>>
    /\ i = 5
    /\ delay = MaxBackoffMs + JitterRangeMs - 1
    /\ backoff = MaxBackoffMs


\* the keys of the profile main selects, as config.yaml sets them; every key
\* unset when no profile is selected
selectedKeys ==
    LET name == IF argv.profile.given /\ argv.profile.val # <<>>
                THEN argv.profile.val
                ELSE IF file.exists THEN file.default ELSE <<>>
        hits == IF file.exists
                THEN {k \in 1..Len(file.profiles) : file.profiles[k].name = name}
                ELSE {}
    IN  IF name # <<>> /\ hits # {}
        THEN file.profiles[CHOOSE k \in hits : TRUE].keys
        ELSE [ model |-> Unset(<<>>), system |-> Unset(<<>>), temp |-> Unset(0),
               base_url |-> Unset(<<>>), proxy |-> Unset(<<>>), format |-> Unset(<<>>),
               max_tokens |-> Unset(0) ]

\* flag value if the flag is given, else the profile's if the profile sets
\* the key, else the default
Precedence(f, k, dflt) ==
    IF f.given THEN f.val ELSE IF k.set THEN k.val ELSE dflt

\* --format is given as --format f or as --json
formatFlag ==
    IF argv.json THEN Given(FmtJson) ELSE argv.format

C12_Model     == mpc = "merged" => settings.model = Precedence(argv.model, selectedKeys.model, DefaultModel)
C12_System    == mpc = "merged" => settings.system = Precedence(argv.system, selectedKeys.system, <<>>)
C12_Temp      == mpc = "merged" => settings.temp = Precedence(argv.temp, selectedKeys.temp, DefaultTemp)
C12_BaseURL   == mpc = "merged" => settings.baseURL = Precedence(argv.base_url, selectedKeys.base_url, <<>>)
C12_Proxy     == mpc = "merged" => settings.proxy = Precedence(argv.proxy, selectedKeys.proxy, <<>>)
C12_Format    == mpc = "merged" => settings.format = Precedence(formatFlag, selectedKeys.format, FmtText)
C12_MaxTokens == mpc = "merged" => settings.maxTokens = Precedence(argv.max_tokens, selectedKeys.max_tokens, DefaultMaxTokens)

\* C12: each of model, system, temp, base_url, proxy, format and max_tokens
\* takes the value of its flag when the flag is given on the command line,
\* otherwise the value the selected profile sets, otherwise the default.
C12_FlagOverProfile ==
    /\ C12_Model
    /\ C12_System
    /\ C12_Temp
    /\ C12_BaseURL
    /\ C12_Proxy
    /\ C12_Format
    /\ C12_MaxTokens

\* the value of --api-key, "" when it is not given
keyFlag == IF argv.api_key.given THEN argv.api_key.val ELSE <<>>
\* api_key of config.yaml, "" without a file
keyFile == IF file.exists THEN file.api_key ELSE <<>>

\* C13: the API key is the flag's, else the one of OPENAI_API_KEY, else the
\* one of config.yaml: with --api-key empty and OPENAI_API_KEY not empty the
\* key is that of OPENAI_API_KEY whatever config.yaml holds; the process
\* exits with status 2 only when all three are empty.
C13_KeyPrecedence ==
    mpc \in {"keyed", "merged", "exit2"} =>
        /\ keyFlag # <<>> => apiKey = keyFlag
        /\ (keyFlag = <<>> /\ environ.OPENAI_API_KEY # <<>>) =>
              apiKey = environ.OPENAI_API_KEY
        /\ mpc = "exit2" =>
              (keyFlag = <<>> /\ environ.OPENAI_API_KEY = <<>> /\ keyFile = <<>>)


\* user at odd positions, assistant at even positions, an even number of turns
Alternates(ts) ==
    /\ Len(ts) % 2 = 0
    /\ \A k \in 1..Len(ts) :
          ts[k].Role = (IF k % 2 = 1 THEN "user" ELSE "assistant")

\* C14: with context kept, whenever the REPL is ready to read the next line
\* the history is a sequence of user/assistant pairs, also after a round trip
\* whose every attempt failed.
C14_Alternation ==
    (~noContext /\ pc = "read") => Alternates(sess.Turns)


\* the number of turns of role r
NumRole(ts, r) == Cardinality({k \in 1..Len(ts) : ts[k].Role = r})

\* a message line is being handled by withRetries
InRetries == pc \in {"invoke", "stream", "sleep"} /\ line # <<>>

\* C15: for one message line the user turn is appended once, before the first
\* attempt, however many attempts are made; every attempt sends the same
\* message list; at most one assistant turn is appended for the line, and
\* only by the attempt that succeeds.
C15_OneUserTurn ==
    [][ /\ (pc = "read" /\ pc' = "invoke") =>
              /\ sess'.Turns = Append(sess.Turns, Turn("user", line'))
              /\ errs' = <<>>
        /\ InRetries' =>
              /\ sess'.Turns = Append(before'.Turns, Turn("user", line'))
              /\ NumRole(sess'.Turns, "user") = NumRole(before'.Turns, "user") + 1
        /\ (InRetries /\ pc = "invoke" /\ pc' = "stream") =>
              /\ msgs' = messagesForAPI(
                            [before EXCEPT !.Turns = Append(before.Turns, Turn("user", line))],
                            jsonModeOf(before))
              /\ errs # <<>> => msgs' = msgs
        /\ (InRetries /\ sess' # sess) =>
              /\ pc = "stream" /\ pc' = "returned"
              /\ errs'[Len(errs')] = "nil"
        /\ LineDone' =>
              /\ NumRole(sess'.Turns, "assistant") =
                    NumRole(before'.Turns, "assistant")
                       + (IF ret' = "nil" /\ ~noContext' THEN 1 ELSE 0)
              /\ NumRole(sess'.Turns, "user") =
                    NumRole(before'.Turns, "user")
                       + (IF ret' = "nil" /\ noContext' THEN 0 ELSE 1) ]_vars

\* the third attempt for a line succeeds after two that failed
C15_Witness ==
    /\ LineDone /\ ret = "nil" /\ ~noContext
    /\ Len(errs) = 3
    /\ NumRole(sess.Turns, "user") = NumRole(before.Turns, "user") + 1

====
